---- MODULE Spec2Model ----
(***************************************************************************)
(* Netease_url: download orchestrator (music_downloader.py), catalogue    *)
(* calls and QR login (music_api.py).                                      *)
(*                                                                         *)
(* The HTTP facade (main.py, app.run(threaded=True)) serves each request   *)
(* on its own thread; every /download request runs                         *)
(* MusicDownloader.download_music_file on the one shared downloader and    *)
(* the one shared download directory.  A thread of the model is one such   *)
(* invocation, cut at its blocking I/O points.                             *)
(*                                                                         *)
(* The filename sanitizer, the lyric cleaner, the calls of NeteaseAPI and  *)
(* the tag writer are modelled on their own, each under a specification    *)
(* that draws its arguments and the service's answers from small sets.     *)
(***************************************************************************)
EXTENDS Integers, Sequences, FiniteSets, TLC

\* ------------------------------------------------------------------ bounds
NumThreads == 2
StreamChunks == 2
MaxTagBytes == 1

\* --------------------------------------------------------------- constants
DefaultMaxConcurrent == 3

Threads == 1..NumThreads
Tracks == {1, 2}

\* The /download requests the model issues: (music_id, quality).
Jobs == {[id |-> 1, quality |-> "standard"], [id |-> 1, quality |-> "exhigh"],
         [id |-> 2, quality |-> "standard"]}

\* Outcomes of requests.get(download_url, stream=True) + raise_for_status().
StreamOutcomes == {"ok", "timeout", "http_error"}

VARIABLES
    max_concurrent,   \* MusicDownloader.max_concurrent
    files,            \* the download directory: path -> file
    pc,               \* position of each download_music_file invocation
    music_info,       \* its MusicInfo (get_music_info's return value)
    downloaded_size,  \* its write offset in the destination file (chunks)
    result,           \* its DownloadResult
    calls,            \* observer: outcome of each network call it issued
    found             \* observer: what its existence check saw (st, by)

dlvars == <<max_concurrent, files, pc, music_info, downloaded_size, result, calls, found>>

VARIABLES
    qr_srv,       \* the service's state of the minted key (0: no key)
    qr_pc,        \* position of qr_login: idle, poll, sleep, returned
    qr_code,      \* observer: session state qr_login's last poll showed
    qr_reported,  \* observer: last result check_qr_login returned, any caller
    qr_requests,  \* observer: status requests sent, modulo RequestWrap
    qr_return     \* qr_login's return value

qrvars == <<qr_srv, qr_pc, qr_code, qr_reported, qr_requests, qr_return>>

\* MusicDownloader._sanitize_filename and ._clean_lrc_lyrics, called on
\* their own: the argument and the value returned.  Strings are sequences
\* of one-character strings.
VARIABLES
    unit_pc,        \* "idle", "call" (argument bound), "return"
    filename,       \* _sanitize_filename's argument
    safe_filename,  \* its return value
    lrc_text,       \* _clean_lrc_lyrics's argument
    cleaned         \* its return value

unitvars == <<unit_pc, filename, safe_filename, lrc_text, cleaned>>

\* One call into NeteaseAPI / QRLoginManager.generate_qr_key, and the /song
\* handler of the facade on top of get_song_url.
VARIABLES
    api_call,       \* the method called and what the service answered
    api_result,     \* what the method returned or raised
    http_response   \* the facade's response, when the facade made the call

apivars == <<api_call, api_result, http_response>>

\* _write_music_tags as called at the tail of download_music_file.
VARIABLES
    tag_pc,         \* "idle", "load", "cover", "save", "returned", "done"
    tag_in,         \* file extension and the MusicInfo fields the writer reads
    audio,          \* frames of the in-memory tag object
    saved,          \* frames saved into the file
    embedded,       \* text of the lyrics frame of the in-memory tag
    tag_calls,      \* observer: outcome of load, cover fetch and save
    tag_result      \* DownloadResult of the enclosing download_music_file

tagvars == <<tag_pc, tag_in, audio, saved, embedded, tag_calls, tag_result>>

\* get_playlist_detail, one batch request at a time.
VARIABLES
    pl_pc,          \* "idle", "loop", "returned"
    track_ids,      \* the ids of playlist['trackIds'], in playlist order
    batch_requests, \* observer: batch_ids of every batch request sent
    info_tracks     \* ids of info['tracks']

plvars == <<pl_pc, track_ids, batch_requests, info_tracks>>

\* The signed (eapi) calls: the process-wide defaults of APIConstants, the
\* caller's cookie mapping, and the requests put on the wire.
VARIABLES
    DEFAULT_CONFIG,   \* APIConstants.DEFAULT_CONFIG, key/value pairs in order
    DEFAULT_COOKIES,  \* APIConstants.DEFAULT_COOKIES
    cookies,          \* the mapping the caller passed, as it is after the call
    request,          \* observer: the last signed request sent
    prev_request      \* observer: the one before it

signvars == <<DEFAULT_CONFIG, DEFAULT_COOKIES, cookies, request, prev_request>>

\* QRLoginClient: the cookie file of its CookieManager and the last call
\* made on the client.
VARIABLES
    cookie_file,    \* content of cookie_manager.cookie_file
    cookie_backup,  \* contents of the backup written last, if any
    login           \* observer: the call, its inputs and what it returned

loginvars == <<cookie_file, cookie_backup, login>>

morevars == <<plvars, signvars, loginvars>>

libvars == <<unitvars, apivars, tagvars, morevars>>

\* Everything outside the groups of morevars.
corevars == <<dlvars, qrvars, unitvars, apivars, tagvars>>

vars == <<dlvars, qrvars, libvars>>

\* ------------------------------------------------------- remote catalogue
\* song_detail['name'] / artists of a track, as served by SONG_DETAIL_V3.
TrackTitle(id) == IF id = 1 THEN "artist1 - song1" ELSE "artist2 - song2"

\* lrc.lyric of a track as served by LYRIC_API: track 2 has no lyrics.
TrackLyric(id) == IF id = 1 THEN "lrc" ELSE ""

\* The stream URL the service grants for a quality names the container.
StreamUrl(id, quality) == [track |-> id, level |-> quality, suffix |-> ".mp3"]

\* _determine_file_extension: the URL's suffix decides, default .mp3.
DetermineFileExtension(url) ==
    IF url.suffix = ".flac" THEN ".flac"
    ELSE IF url.suffix = ".mp3" THEN ".mp3"
    ELSE IF url.suffix = ".m4a" THEN ".m4a"
    ELSE ".mp3"

\* Outcomes of the three catalogue calls of get_music_info.
UrlOutcomes == {"ok", "null_url", "no_data", "api_error"}
DetailOutcomes == {"ok", "no_songs", "api_error"}
LyricOutcomes == {"served", "api_error"}

NoCalls == [url |-> "not_called", detail |-> "not_called", lyric |-> "not_called",
            stream |-> "not_called"]

\* ------------------------------------------------------------- MusicInfo
NoInfo == [id |-> 0, name |-> "", download_url |-> [track |-> 0, level |-> "", suffix |-> ""],
           quality |-> "", lyric |-> ""]

\* get_music_info without the `if not download_url` check of line 205.
GetMusicInfoRaisesAcceptsNullUrl(u, d, l) ==
    \/ u \in {"no_data", "api_error"}
    \/ d # "ok"
    \/ l = "api_error"

\* get_music_info without the `songs` check of line 213.
GetMusicInfoRaisesAcceptsNoSongs(u, d, l) ==
    \/ u # "ok"
    \/ d = "api_error"
    \/ l = "api_error"

\* get_music_info: stream URL, then track detail, then lyrics; the first
\* failing step raises DownloadException and the later calls are not made.
GetMusicInfoRaises(u, d, l) ==
    \/ u # "ok"
    \/ d # "ok"
    \/ l = "api_error"

\* What the lyric call showed: "ok" (lyric text), "empty" (none) or
\* "api_error" (get_lyric raised).
LyricResult(id, l) ==
    IF l = "api_error" THEN "api_error"
    ELSE IF TrackLyric(id) = "" THEN "empty" ELSE "ok"

\* The text of the DownloadException get_music_info raises: lines 201, 206
\* and 214 (re-wrapped at 261), and 258 for an APIException of any call.
GetMusicInfoError(u, d, l) ==
    IF u = "api_error" THEN "api_call_failed"
    ELSE IF u = "no_data" THEN "no_play_link"
    ELSE IF u = "null_url" THEN "no_download_url"
    ELSE IF d = "api_error" THEN "api_call_failed"
    ELSE IF d = "no_songs" THEN "no_detail"
    ELSE "api_call_failed"

GetMusicInfoCalls(id, u, d, l) ==
    [url |-> u,
     detail |-> IF u = "ok" THEN d ELSE "not_called",
     lyric |-> IF u = "ok" /\ d = "ok" THEN LyricResult(id, l) ELSE "not_called",
     stream |-> "not_called"]

GetMusicInfo(id, quality) ==
    [id |-> id, name |-> TrackTitle(id), download_url |-> StreamUrl(id, quality),
     quality |-> quality, lyric |-> TrackLyric(id)]

\* ------------------------------------------------------------ filesystem
\* file_path = download_dir / f"{safe_filename}{file_ext}"
FilePath(mi) == <<mi.name, DetermineFileExtension(mi.download_url)>>

Paths == {<<TrackTitle(id), ".mp3">> : id \in Tracks}

\* st: "absent", "writing" (opened 'wb', stream not finished), "partial"
\* (the writer's stream raised mid-way), "complete" (stream ended, tags
\* attempted).  by: the invocation that last opened or completed it.
NoFile == [st |-> "absent", bytes |-> 0, tag |-> 0, by |-> 0]

\* What an existence check learns of the file for the observer found.
Seen(f) == [st |-> f.st, by |-> f.by]

\* Path.stat().st_size
StatSize(f) == f.bytes + f.tag

\* ---------------------------------------------------------- DownloadResult
NoResult == [success |-> FALSE, file_size |-> 0, error_message |-> "", disk |-> 0]

\* DownloadResult(success=True, file_size=...); disk is an observer: the
\* destination's on-disk size at the moment the call returns.
Success(size, disk) == [success |-> TRUE, file_size |-> size, error_message |-> "", disk |-> disk]

\* The catch-all reporting a fixed text instead of the exception.
FailureDropsCause(e) == [success |-> FALSE, file_size |-> 0, error_message |-> "", disk |-> 0]

\* DownloadResult(success=False, error_message=f"...{e}")
Failure(e) == [success |-> FALSE, file_size |-> 0, error_message |-> e, disk |-> 0]

InitDownloader(k) ==
    /\ max_concurrent = k
    /\ files = [p \in Paths |-> NoFile]
    /\ pc = [t \in Threads |-> "idle"]
    /\ music_info = [t \in Threads |-> NoInfo]
    /\ downloaded_size = [t \in Threads |-> 0]
    /\ result = [t \in Threads |-> NoResult]
    /\ calls = [t \in Threads |-> NoCalls]
    /\ found = [t \in Threads |-> Seen(NoFile)]

\* ------------------------------------------------- download_music_file
\* Request threads are numbered in the order their requests arrive.
\* Entry: music_info = self.get_music_info(music_id, quality), inside the
\* catch-all try of download_music_file.
DownloadGetInfo(t, id, quality, u, d, l) ==
    /\ pc[t] = "idle"
    /\ \A s \in Threads : s < t => pc[s] # "idle"
    /\ calls' = [calls EXCEPT ![t] = GetMusicInfoCalls(id, u, d, l)]
    /\ IF GetMusicInfoRaises(u, d, l)
       THEN /\ pc' = [pc EXCEPT ![t] = "done"]
            /\ result' = [result EXCEPT ![t] = Failure(GetMusicInfoError(u, d, l))]
            /\ UNCHANGED music_info
       ELSE /\ pc' = [pc EXCEPT ![t] = "check"]
            /\ music_info' = [music_info EXCEPT ![t] = GetMusicInfo(id, quality)]
            /\ UNCHANGED result
    /\ UNCHANGED <<max_concurrent, files, downloaded_size, found>>
    /\ UNCHANGED <<qrvars, libvars>>

\* download_music_file without the existence check of lines 284-292: the
\* stream is fetched whatever is at the destination.
DownloadCheckExistsIgnored(t) ==
    /\ pc[t] = "check"
    /\ found' = [found EXCEPT ![t] = Seen(files[FilePath(music_info[t])])]
    /\ pc' = [pc EXCEPT ![t] = "fetch"]
    /\ UNCHANGED <<max_concurrent, files, music_info, downloaded_size, calls, result>>
    /\ UNCHANGED <<qrvars, libvars>>

\* if file_path.exists(): return success with stat().st_size
DownloadCheckExists(t) ==
    /\ pc[t] = "check"
    /\ LET p == FilePath(music_info[t])
           f == files[p]
       IN /\ found' = [found EXCEPT ![t] = Seen(f)]
          /\ IF f.st # "absent"
             THEN /\ pc' = [pc EXCEPT ![t] = "done"]
                  /\ result' = [result EXCEPT ![t] = Success(StatSize(f), StatSize(f))]
             ELSE /\ pc' = [pc EXCEPT ![t] = "fetch"]
                  /\ UNCHANGED result
    /\ UNCHANGED <<max_concurrent, files, music_info, downloaded_size, calls>>
    /\ UNCHANGED <<qrvars, libvars>>

\* requests.get(download_url, stream=True, timeout=30); raise_for_status();
\* open(file_path, 'wb') creates or truncates the destination.
DownloadOpenStream(t, r) ==
    /\ pc[t] = "fetch"
    /\ calls' = [calls EXCEPT ![t].stream = r]
    /\ IF r = "ok"
       THEN /\ pc' = [pc EXCEPT ![t] = "write"]
            /\ files' = [files EXCEPT ![FilePath(music_info[t])] =
                            [st |-> "writing", bytes |-> 0, tag |-> 0, by |-> t]]
            /\ downloaded_size' = [downloaded_size EXCEPT ![t] = 0]
            /\ UNCHANGED result
       ELSE /\ pc' = [pc EXCEPT ![t] = "done"]
            /\ result' = [result EXCEPT ![t] = Failure(r)]
            /\ UNCHANGED <<files, downloaded_size>>
    /\ UNCHANGED <<max_concurrent, music_info, found>>
    /\ UNCHANGED <<qrvars, libvars>>

Max(a, b) == IF a >= b THEN a ELSE b

\* for chunk in response.iter_content(...): f.write(chunk)
DownloadWriteChunk(t) ==
    /\ pc[t] = "write"
    /\ downloaded_size[t] < StreamChunks
    /\ LET p == FilePath(music_info[t])
       IN files' = [files EXCEPT ![p].bytes = Max(@, downloaded_size[t] + 1)]
    /\ downloaded_size' = [downloaded_size EXCEPT ![t] = @ + 1]
    /\ UNCHANGED <<max_concurrent, pc, music_info, result, calls, found>>
    /\ UNCHANGED <<qrvars, libvars>>

\* iter_content raises (read timeout, connection reset): the with-block
\* closes the file, the catch-all returns a failure; the bytes stay.
DownloadStreamFails(t) ==
    /\ pc[t] = "write"
    /\ downloaded_size[t] < StreamChunks
    /\ LET p == FilePath(music_info[t])
       IN files' = [files EXCEPT ![p].st = "partial", ![p].by = t]
    /\ calls' = [calls EXCEPT ![t].stream = "timeout"]
    /\ pc' = [pc EXCEPT ![t] = "done"]
    /\ result' = [result EXCEPT ![t] = Failure("timeout")]
    /\ UNCHANGED <<max_concurrent, music_info, downloaded_size, found>>
    /\ UNCHANGED <<qrvars, libvars>>

\* final_size = stat().st_size; _write_music_tags(...); return success
\* with file_size = final_size.  g: bytes the tag writer adds to the file
\* (0 when it fails, is a no-op, or rewrites in place).
DownloadFinish(t, g) ==
    /\ pc[t] = "write"
    /\ downloaded_size[t] = StreamChunks
    /\ LET p == FilePath(music_info[t])
           final_size == StatSize(files[p])
           tagged == [files[p] EXCEPT !.st = "complete", !.tag = g, !.by = t]
       IN /\ files' = [files EXCEPT ![p] = tagged]
          /\ result' = [result EXCEPT ![t] = Success(final_size, StatSize(tagged))]
    /\ pc' = [pc EXCEPT ![t] = "done"]
    /\ UNCHANGED <<max_concurrent, music_info, downloaded_size, calls, found>>
    /\ UNCHANGED <<qrvars, libvars>>


\* ===================================================================== QR
\* QRLoginManager (music_api.py): generate_qr_key / create_qr_login mint a
\* key, check_qr_login polls it once, qr_login loops over check_qr_login.

\* Status codes of the login endpoint.  The client names 801, 802 and 803;
\* every other code (800 = key expired included) takes qr_login's else.
QrPending == 801
QrScanned == 802
QrConfirmed == 803
QrExpired == 800
QrNoCode == -1

\* Set-Cookie headers the login endpoint may answer with: a sequence of
\* cookies, each a <<name, value>> pair.
SetCookieHeaders ==
    { <<>>,
      << <<"NMTID", "n">> >>,
      << <<"MUSIC_U", "tok">>, <<"NMTID", "n">> >>,
      << <<"MUSIC_U", "tok">>, <<"MUSIC_U", "">> >> }

\* check_qr_login lines 572-575: every cookie string containing MUSIC_U=
\* overwrites cookie_dict['MUSIC_U'], so the last one wins.
RECURSIVE ExtractCookies(_, _)
ExtractCookies(all_cookies, cookie_dict) ==
    IF all_cookies = <<>> THEN cookie_dict
    ELSE LET c == Head(all_cookies)
         IN ExtractCookies(Tail(all_cookies),
                IF c[1] = "MUSIC_U" THEN [MUSIC_U |-> c[2]] ELSE cookie_dict)

EmptyDict == [x \in {} |-> ""]

\* What one status request comes back with.
\*   kind "json": an envelope with a code and the Set-Cookie header;
\*   kind "no_code": an envelope without 'code';
\*   kind "bad_json": a body json.loads rejects;
\*   kind "transport": requests raised (post_request_full -> APIException).
QrResponse(kind, code, header) == [kind |-> kind, code |-> code, set_cookie |-> header]

\* check_qr_login: (code, cookie_dict), or APIException.
CheckQrLogin(resp) ==
    IF resp.kind \in {"transport", "bad_json"}
    THEN [raised |-> TRUE, code |-> 0, cookies |-> EmptyDict, set_cookie |-> resp.set_cookie]
    ELSE IF resp.kind = "no_code"
    THEN [raised |-> FALSE, code |-> QrNoCode, cookies |-> EmptyDict, set_cookie |-> resp.set_cookie]
    ELSE [raised |-> FALSE, code |-> resp.code,
          cookies |-> IF resp.code = QrConfirmed
                      THEN ExtractCookies(resp.set_cookie, EmptyDict)
                      ELSE EmptyDict,
          set_cookie |-> resp.set_cookie]

NoPoll == [raised |-> FALSE, code |-> 0, cookies |-> EmptyDict, set_cookie |-> <<>>]

\* qr_login's return value: None, or
\* f"MUSIC_U={cookies['MUSIC_U']};os=pc;appver=8.9.70;"
None == [music_u |-> "", os |-> "", appver |-> "", none |-> TRUE]
CookieString(tok) == [music_u |-> tok, os |-> "pc", appver |-> "8.9.70", none |-> FALSE]

\* qr_login taking only a raised call as failure and polling on after
\* any code it does not name.
QrLoginBranchPollsOn(r) ==
    IF r.raised THEN "return_none"
    ELSE IF r.code = QrConfirmed
         THEN IF "MUSIC_U" \in DOMAIN r.cookies THEN "return_cookie" ELSE "return_none"
    ELSE "sleep"

\* What the loop body of qr_login does with one poll result:
\* "return_cookie", "return_none" or "sleep".
QrLoginBranch(r) ==
    IF r.raised THEN "return_none"
    ELSE IF r.code = QrConfirmed
         THEN IF "MUSIC_U" \in DOMAIN r.cookies THEN "return_cookie" ELSE "return_none"
    ELSE IF r.code = QrPending THEN "sleep"
    ELSE IF r.code = QrScanned THEN "sleep"
    ELSE "return_none"

\* The session state a poll result stands for; a raised call is "failed".
Observed(r) == IF r.raised THEN QrNoCode ELSE r.code

\* Request counter width of the observer qr_requests.
RequestWrap == 2

InitQR ==
    /\ qr_srv = 0
    /\ qr_pc = "idle"
    /\ qr_code = 0
    /\ qr_reported = NoPoll
    /\ qr_requests = 0
    /\ qr_return = None

\* The answers the service can give to a status request for the key.
QrAnswers ==
    { QrResponse("json", qr_srv, h) :
        h \in IF qr_srv = QrConfirmed THEN SetCookieHeaders ELSE {<<>>} }
    \cup { QrResponse(k, 0, <<>>) : k \in {"no_code", "bad_json", "transport"} }

\* unikey = self.create_qr_login(); if not unikey: return None
QrLoginCreate(minted) ==
    /\ qr_pc = "idle"
    /\ IF minted
       THEN /\ qr_srv' = QrPending
            /\ qr_pc' = "poll"
       ELSE /\ qr_pc' = "returned"
            /\ UNCHANGED qr_srv
    /\ UNCHANGED <<qr_code, qr_reported, qr_requests, qr_return>>
    /\ UNCHANGED <<dlvars, libvars>>

\* code, cookies = self.check_qr_login(unikey) and the branch on code
QrLoginPoll(resp) ==
    /\ qr_pc = "poll"
    /\ LET r == CheckQrLogin(resp)
           b == QrLoginBranch(r)
       IN /\ qr_reported' = r
          /\ qr_code' = Observed(r)
          /\ qr_pc' = IF b = "sleep" THEN "sleep" ELSE "returned"
          /\ qr_return' = IF b = "return_cookie" THEN CookieString(r.cookies.MUSIC_U) ELSE None
    /\ qr_requests' = (qr_requests + 1) % RequestWrap
    /\ UNCHANGED qr_srv
    /\ UNCHANGED <<dlvars, libvars>>

\* time.sleep(2), then the next iteration of while True
QrLoginSleep ==
    /\ qr_pc = "sleep"
    /\ qr_pc' = "poll"
    /\ UNCHANGED <<qr_srv, qr_code, qr_reported, qr_requests, qr_return>>
    /\ UNCHANGED <<dlvars, libvars>>

\* Any holder of the key calls QRLoginManager.check_qr_login(unikey).
QrCheck(resp) ==
    /\ qr_srv # 0
    /\ qr_reported' = CheckQrLogin(resp)
    /\ qr_requests' = (qr_requests + 1) % RequestWrap
    /\ UNCHANGED <<qr_srv, qr_pc, qr_code, qr_return>>
    /\ UNCHANGED <<dlvars, libvars>>

\* The service side of the key: the phone scans it, confirms it, or the
\* key times out.
QrScan ==
    /\ qr_srv = QrPending
    /\ qr_srv' = QrScanned
    /\ UNCHANGED <<qr_pc, qr_code, qr_reported, qr_requests, qr_return>>
    /\ UNCHANGED <<dlvars, libvars>>

QrConfirm ==
    /\ qr_srv = QrScanned
    /\ qr_srv' = QrConfirmed
    /\ UNCHANGED <<qr_pc, qr_code, qr_reported, qr_requests, qr_return>>
    /\ UNCHANGED <<dlvars, libvars>>

QrExpire ==
    /\ qr_srv \in {QrPending, QrScanned}
    /\ qr_srv' = QrExpired
    /\ UNCHANGED <<qr_pc, qr_code, qr_reported, qr_requests, qr_return>>
    /\ UNCHANGED <<dlvars, libvars>>

QrLoginStep ==
    \/ \E minted \in BOOLEAN : QrLoginCreate(minted)
    \/ \E resp \in QrAnswers : QrLoginPoll(resp)
    \/ QrLoginSleep

QrNext ==
    \/ \E minted \in BOOLEAN : QrLoginCreate(minted)
    \/ \E resp \in QrAnswers : QrLoginPoll(resp)
    \/ QrLoginSleep
    \/ \E resp \in QrAnswers : QrCheck(resp)
    \/ QrScan
    \/ QrConfirm
    \/ QrExpire

\* ============================================================== filenames
\* MusicDownloader._sanitize_filename (MusicAPIService._sanitize_filename
\* in main.py is the same code).

\* illegal_chars = r'[<>:"/\\|?*]'
IllegalChars == {"<", ">", ":", "\"", "/", "\\", "|", "?", "*"}

\* if len(filename) > 200: filename = filename[:200]
FilenameCap == 200

\* re.sub(illegal_chars, '_', filename)
ReplaceIllegal(s) == [i \in 1..Len(s) |-> IF s[i] \in IllegalChars THEN "_" ELSE s[i]]

\* filename.strip(' .'): leading and trailing spaces and dots go.
StripChars == {" ", "."}

RECURSIVE LStrip(_)
LStrip(s) == IF s # <<>> /\ Head(s) \in StripChars THEN LStrip(Tail(s)) ELSE s

RECURSIVE RStrip(_)
RStrip(s) ==
    IF s # <<>> /\ s[Len(s)] \in StripChars THEN RStrip(SubSeq(s, 1, Len(s) - 1)) ELSE s

Strip(s) == RStrip(LStrip(s))

Truncate(s) == IF Len(s) > FilenameCap THEN SubSeq(s, 1, FilenameCap) ELSE s

\* "unknown"
Unknown == <<"u", "n", "k", "n", "o", "w", "n">>

\* The sanitizer without its final `or "unknown"`.
SanitizeFilenameNoDefault(s) == Truncate(Strip(ReplaceIllegal(s)))

\* _sanitize_filename: replace, strip, cap, default - in this order.
SanitizeFilename(s) ==
    LET f == Truncate(Strip(ReplaceIllegal(s)))
    IN IF f = <<>> THEN Unknown ELSE f

\* Arguments: a head of at most one character, a run of "a", and a tail of
\* at most MaxAffix characters; the runs put the tail around the cap.
MaxAffix == 2

FilenameChars == IllegalChars \cup {"a", " ", "."}

Heads == {<<>>, <<" ">>, <<".">>, <<"/">>}

Affixes == UNION {[1..n -> FilenameChars] : n \in 0..MaxAffix}

Fill(n) == [i \in 1..n |-> "a"]

FillLengths == {0, FilenameCap - 1, FilenameCap}

FilenameInputs == {h \o Fill(n) \o t : h \in Heads, n \in FillLengths, t \in Affixes}

\* ================================================================= lyrics
\* MusicDownloader._clean_lrc_lyrics.

\* lrc_text.split('\n'); cur is the line being collected.
RECURSIVE Split(_, _)
Split(s, cur) ==
    IF s = <<>> THEN <<cur>>
    ELSE IF Head(s) = "\n" THEN <<cur>> \o Split(Tail(s), <<>>)
    ELSE Split(Tail(s), Append(cur, Head(s)))

\* '\n'.join(lines)
RECURSIVE Join(_)
Join(lines) ==
    IF lines = <<>> THEN <<>>
    ELSE IF Len(lines) = 1 THEN lines[1]
    ELSE lines[1] \o <<"\n">> \o Join(Tail(lines))

WhiteSpace == {" ", "\t", "\r"}

\* A test for the empty line only (`if not line`).
IsBlankOnlyEmpty(line) == line = <<>>

\* not line.strip()
IsBlank(line) == \A i \in 1..Len(line) : line[i] \in WhiteSpace

\* line.startswith('[') and ':' in line and not line.startswith('[0')
IsIdTag(line) ==
    /\ Len(line) >= 1 /\ line[1] = "["
    /\ \E i \in 1..Len(line) : line[i] = ":"
    /\ ~(Len(line) >= 2 /\ line[2] = "0")

KeptLine(line) == ~IsBlank(line) /\ ~IsIdTag(line)

\* _clean_lrc_lyrics
CleanLrcLyrics(text) ==
    IF text = <<>> THEN <<>>
    ELSE Join(SelectSeq(Split(text, <<>>), KeptLine))

\* Lines the arguments are made of: two id tags, an empty and a
\* whitespace line, a timestamped line of minute 01 and one of minute 12,
\* and a line of plain text.
LineSamples ==
    { <<"[", "a", "r", ":", "x", "]">>,
      <<"[", "t", "i", ":", "a", "]">>,
      <<>>,
      <<" ">>,
      <<"[", "0", "1", ":", "0", "2", ".", "0", "0", "]", "a">>,
      <<"[", "1", "2", ":", "0", "2", ".", "0", "0", "]", "a">>,
      <<"a">> }

MaxLines == 3

LrcInputs == {Join(ls) : ls \in UNION {[1..n -> LineSamples] : n \in 0..MaxLines}}

\* -------------------------------------------------- the two units, called
InitUnits ==
    /\ unit_pc = "idle"
    /\ filename = <<>>
    /\ safe_filename = <<>>
    /\ lrc_text = <<>>
    /\ cleaned = <<>>

InitSanitize ==
    /\ unit_pc = "call"
    /\ filename \in FilenameInputs
    /\ safe_filename = <<>>
    /\ lrc_text = <<>>
    /\ cleaned = <<>>

InitClean ==
    /\ unit_pc = "call"
    /\ filename = <<>>
    /\ safe_filename = <<>>
    /\ lrc_text \in LrcInputs
    /\ cleaned = <<>>

\* safe_filename = self._sanitize_filename(filename)
Sanitize ==
    /\ unit_pc = "call"
    /\ safe_filename' = SanitizeFilename(filename)
    /\ unit_pc' = "sanitized"
    /\ UNCHANGED <<filename, lrc_text, cleaned>>
    /\ UNCHANGED <<dlvars, qrvars, apivars, tagvars, morevars>>

\* self._clean_lrc_lyrics(lrc_text)
Clean ==
    /\ unit_pc = "call"
    /\ cleaned' = CleanLrcLyrics(lrc_text)
    /\ unit_pc' = "cleaned"
    /\ UNCHANGED <<filename, safe_filename, lrc_text>>
    /\ UNCHANGED <<dlvars, qrvars, apivars, tagvars, morevars>>

\* ============================================================ NeteaseAPI
\* What one HTTP request comes back with.
\*   kind "transport": requests raised (timeout, connection error);
\*   kind "http_error": raise_for_status() raised;
\*   kind "bad_json": a body json rejects;
\*   kind "json": an envelope with a top-level code and a payload.
ApiResponse(kind, code, payload) == [kind |-> kind, code |-> code, payload |-> payload]

EnvelopeCodes == {200, 400}

\* Payload of an envelope: "full" (the items asked for), "null_url" (a
\* stream descriptor whose url is null), "empty" (no items), "malformed"
\* (items lacking a key the method reads).
Payloads == {"full", "null_url", "empty", "malformed"}

ApiAnswers ==
    {ApiResponse(k, 0, "empty") : k \in {"transport", "http_error", "bad_json"}}
    \cup {ApiResponse("json", c, p) : c \in EnvelopeCodes, p \in Payloads}

\* Answers to the per-batch SONG_DETAIL_V3 requests of a playlist.
BatchAnswers == {r \in ApiAnswers : r.payload # "null_url"}

\* raise APIException(message)
APIException(m) == [raised |-> TRUE, kind |-> "APIException", message |-> m, data |-> <<>>]

\* return data
Returned(d) == [raised |-> FALSE, kind |-> "", message |-> "", data |-> d]

\* NeteaseAPI.get_song_url over HTTPClient.post_request
GetSongUrl(r) ==
    IF r.kind \in {"transport", "http_error"} THEN APIException("request_failed")
    ELSE IF r.kind = "bad_json" THEN APIException("parse_failed")
    ELSE IF r.code # 200 THEN APIException("rejected")
    ELSE Returned(<<r.payload>>)

\* NeteaseAPI.get_song_detail
GetSongDetail(r) ==
    IF r.kind \in {"transport", "http_error"} THEN APIException("request_failed")
    ELSE IF r.kind = "bad_json" THEN APIException("parse_failed")
    ELSE IF r.code # 200 THEN APIException("rejected")
    ELSE Returned(<<r.payload>>)

\* NeteaseAPI.get_lyric
GetLyric(r) ==
    IF r.kind \in {"transport", "http_error"} THEN APIException("request_failed")
    ELSE IF r.kind = "bad_json" THEN APIException("parse_failed")
    ELSE IF r.code # 200 THEN APIException("rejected")
    ELSE Returned(<<r.payload>>)

\* NeteaseAPI.search_music: item['id'], item['ar'], ... raise KeyError on a
\* malformed item.
SearchMusic(r) ==
    IF r.kind \in {"transport", "http_error"} THEN APIException("request_failed")
    ELSE IF r.kind = "bad_json" THEN APIException("parse_failed")
    ELSE IF r.code # 200 THEN APIException("rejected")
    ELSE IF r.payload = "malformed" THEN APIException("parse_failed")
    ELSE Returned(IF r.payload = "empty" THEN <<>> ELSE <<r.payload>>)

\* get_playlist_detail, lines 357-373: one SONG_DETAIL_V3 request per batch
\* of track ids; the songs of each answer are appended, whatever its code.
RECURSIVE PlaylistTracks(_, _)
PlaylistTracks(batches, tracks) ==
    IF batches = <<>> THEN Returned(tracks)
    ELSE LET b == Head(batches)
         IN IF b.kind \in {"transport", "http_error"} THEN APIException("request_failed")
            ELSE IF b.kind = "bad_json" THEN APIException("parse_failed")
            ELSE IF b.payload = "malformed" THEN APIException("parse_failed")
            ELSE PlaylistTracks(Tail(batches),
                     IF b.payload = "empty" THEN tracks ELSE Append(tracks, b.payload))

\* NeteaseAPI.get_playlist_detail
GetPlaylistDetail(r, batches) ==
    IF r.kind \in {"transport", "http_error"} THEN APIException("request_failed")
    ELSE IF r.kind = "bad_json" THEN APIException("parse_failed")
    ELSE IF r.code # 200 THEN APIException("rejected")
    ELSE PlaylistTracks(batches, <<>>)

\* NeteaseAPI.get_album_detail
GetAlbumDetail(r) ==
    IF r.kind \in {"transport", "http_error"} THEN APIException("request_failed")
    ELSE IF r.kind = "bad_json" THEN APIException("parse_failed")
    ELSE IF r.code # 200 THEN APIException("rejected")
    ELSE IF r.payload = "malformed" THEN APIException("parse_failed")
    ELSE Returned(IF r.payload = "empty" THEN <<>> ELSE <<r.payload>>)

\* QRLoginManager.generate_qr_key over HTTPClient.post_request_full
GenerateQrKey(r) ==
    IF r.kind \in {"transport", "http_error"} THEN APIException("request_failed")
    ELSE IF r.kind = "bad_json" THEN APIException("parse_failed")
    ELSE IF r.code = 200 THEN Returned(<<r.payload>>)
    ELSE APIException("rejected")

\* APIResponse.success / APIResponse.error; url is the 'url' of the data.
NoHttpResponse == [status |-> 0, success |-> FALSE, message |-> "", url |-> ""]
HttpSuccess(message, url) == [status |-> 200, success |-> TRUE, message |-> message, url |-> url]
HttpError(message, status) == [status |-> status, success |-> FALSE, message |-> message, url |-> ""]

\* get_song_info (/song), type 'url': lines 1090-1106, and the handlers of
\* lines 1154-1159 for what url_v1 raises.
SongInfoUrl(res) ==
    IF res.raised THEN HttpError("api_call_failed", 500)
    ELSE IF res.data # <<>> /\ res.data[1] # "empty"
         THEN HttpSuccess("song_url_ok", IF res.data[1] = "null_url" THEN "null" ELSE "url")
    ELSE HttpError("song_url_failed", 404)

\* download_music_api (/download), lines 1303-1306: a failed DownloadResult.
DownloadApiError(res) == HttpError(res.error_message, 500)

NoApiCall == [fn |-> "none", resp |-> ApiResponse("none", 0, "empty"), batches |-> <<>>]

\* Batch requests a playlist may need.
MaxBatches == 2

BatchRuns == UNION {[1..n -> BatchAnswers] : n \in 0..MaxBatches}

InitAPI ==
    /\ api_call = NoApiCall
    /\ api_result = Returned(<<>>)
    /\ http_response = NoHttpResponse

\* The method fn is called, the service answers r (and b to the batches).
ApiCalled(fn, r, b, res) ==
    /\ api_call.fn = "none"
    /\ api_call' = [fn |-> fn, resp |-> r, batches |-> b]
    /\ api_result' = res
    /\ http_response' = IF fn = "get_song_info" THEN SongInfoUrl(res) ELSE NoHttpResponse
    /\ UNCHANGED <<dlvars, qrvars, unitvars, tagvars, morevars>>

ApiGetSongUrl(r) == ApiCalled("get_song_url", r, <<>>, GetSongUrl(r))
ApiGetSongDetail(r) == ApiCalled("get_song_detail", r, <<>>, GetSongDetail(r))
ApiGetLyric(r) == ApiCalled("get_lyric", r, <<>>, GetLyric(r))
ApiSearchMusic(r) == ApiCalled("search_music", r, <<>>, SearchMusic(r))
ApiGetAlbumDetail(r) == ApiCalled("get_album_detail", r, <<>>, GetAlbumDetail(r))
ApiGenerateQrKey(r) == ApiCalled("generate_qr_key", r, <<>>, GenerateQrKey(r))

\* The batch requests are made only once the playlist itself has arrived.
ApiGetPlaylistDetail(r, b) ==
    /\ (r.kind = "json" /\ r.code = 200 /\ r.payload = "full") \/ b = <<>>
    /\ ApiCalled("get_playlist_detail", r, b, GetPlaylistDetail(r, b))

\* A /song request of type 'url': url_v1 is get_song_url.
ApiSongInfo(r) == ApiCalled("get_song_info", r, <<>>, GetSongUrl(r))

ApiNext ==
    \/ \E r \in ApiAnswers : ApiGetSongUrl(r)
    \/ \E r \in ApiAnswers : ApiGetSongDetail(r)
    \/ \E r \in ApiAnswers : ApiGetLyric(r)
    \/ \E r \in ApiAnswers : ApiSearchMusic(r)
    \/ \E r \in ApiAnswers, b \in BatchRuns : ApiGetPlaylistDetail(r, b)
    \/ \E r \in ApiAnswers : ApiGetAlbumDetail(r)
    \/ \E r \in ApiAnswers : ApiGenerateQrKey(r)
    \/ \E r \in ApiAnswers : ApiSongInfo(r)

\* ============================================================= tag writer
\* _write_music_tags and _write_mp3_tags / _write_flac_tags / _write_m4a_tags,
\* entered from download_music_file (line 315) once the stream is on disk.
\* A frame is named by what it holds: the three containers differ in the
\* keys only.

NoTagIn ==
    [file_path |-> <<"", "">>, pic_url |-> "", lyric |-> <<>>, tlyric |-> <<>>,
     track_number |-> 0]

\* music_info.lyric / music_info.tlyric: none, identification tags only,
\* one timed line.
LyricSamples ==
    {<<>>, <<"[", "a", "r", ":", "x", "]">>,
     <<"[", "0", "1", ":", "0", "2", ".", "0", "0", "]", "a">>}

\* Destinations carry one of the extensions _determine_file_extension
\* returns.
TagInputs ==
    [file_path : {<<"artist1 - song1", e>> : e \in {".mp3", ".flac", ".m4a"}},
     pic_url : {"", "pic"},
     lyric : LyricSamples,
     tlyric : LyricSamples,
     track_number : {0, 1}]

NoTagCalls == [load |-> "not_called", cover |-> "not_called", save |-> "not_called"]

NoTagResult == [success |-> FALSE, file_path |-> <<"", "">>]

\* title, artist, album; the track number when it is positive.
BasicFrames(mi) ==
    {"title", "artist", "album"} \cup (IF mi.track_number > 0 THEN {"track"} ELSE {})

\* "\n\n[....]\n": the heading put before the translated lyric; its four
\* CJK characters are written as the one element "T".
TranslationHeading == <<"\n", "\n", "[", "T", "]", "\n">>

\* combined_lyrics of the three writers.
CombinedLyrics(lyric, tlyric) ==
    LET original == IF lyric # <<>> THEN CleanLrcLyrics(lyric) ELSE <<>>
    IN IF tlyric = <<>> THEN original
       ELSE IF original # <<>>
            THEN original \o TranslationHeading \o CleanLrcLyrics(tlyric)
            ELSE CleanLrcLyrics(tlyric)

\* The lyrics frame is added when combined_lyrics is not empty.
LyricFrames(mi) ==
    IF CombinedLyrics(mi.lyric, mi.tlyric) # <<>> THEN {"lyrics"} ELSE {}

\* Opening the file as a tag container: ID3(path) failing falls back to a
\* new ID3(); FLAC(path) and MP4(path) failing raise.
LoadRaises(ext, o) == o = "raises" /\ ext # ".mp3"

\* The cover block with its try/except removed: a failed fetch raises.
AddCoverRaises(frames, o) ==
    [raised |-> o # "ok", audio |-> IF o = "ok" THEN frames \cup {"cover"} ELSE frames]

\* try: requests.get(pic_url) ... add the picture; except: log a warning
AddCover(frames, o) ==
    [raised |-> FALSE, audio |-> IF o = "ok" THEN frames \cup {"cover"} ELSE frames]

InitTags ==
    /\ tag_pc = "idle"
    /\ tag_in = NoTagIn
    /\ audio = {}
    /\ saved = {}
    /\ embedded = <<>>
    /\ tag_calls = NoTagCalls
    /\ tag_result = NoTagResult

InitTagWriter ==
    /\ tag_pc = "load"
    /\ tag_in \in TagInputs
    /\ audio = {}
    /\ saved = {}
    /\ embedded = <<>>
    /\ tag_calls = NoTagCalls
    /\ tag_result = NoTagResult

\* Dispatch on the suffix, open the container, set the text frames.
TagsLoad(o) ==
    /\ tag_pc = "load"
    /\ tag_calls' = [tag_calls EXCEPT !.load = o]
    /\ IF LoadRaises(tag_in.file_path[2], o)
       THEN /\ tag_pc' = "returned"
            /\ UNCHANGED <<audio, embedded>>
       ELSE /\ audio' = BasicFrames(tag_in) \cup LyricFrames(tag_in)
            /\ embedded' = CombinedLyrics(tag_in.lyric, tag_in.tlyric)
            /\ tag_pc' = IF tag_in.pic_url # "" THEN "cover" ELSE "save"
    /\ UNCHANGED <<tag_in, saved, tag_result>>
    /\ UNCHANGED <<dlvars, qrvars, unitvars, apivars, morevars>>

\* if music_info.pic_url: fetch the cover and add it
TagsFetchCover(o) ==
    /\ tag_pc = "cover"
    /\ tag_calls' = [tag_calls EXCEPT !.cover = o]
    /\ LET c == AddCover(audio, o)
       IN /\ audio' = c.audio
          /\ tag_pc' = IF c.raised THEN "returned" ELSE "save"
    /\ UNCHANGED <<tag_in, saved, embedded, tag_result>>
    /\ UNCHANGED <<dlvars, qrvars, unitvars, apivars, morevars>>

\* audio.save(): raising, it is re-raised by the container's writer and
\* logged by _write_music_tags, which returns.
TagsSave(o) ==
    /\ tag_pc = "save"
    /\ tag_calls' = [tag_calls EXCEPT !.save = o]
    /\ saved' = IF o = "ok" THEN audio ELSE saved
    /\ tag_pc' = "returned"
    /\ UNCHANGED <<tag_in, audio, embedded, tag_result>>
    /\ UNCHANGED <<dlvars, qrvars, unitvars, apivars, morevars>>

\* download_music_file, lines 316-323: return DownloadResult(success=True,
\* file_path=...)
TagsReturn ==
    /\ tag_pc = "returned"
    /\ tag_result' = [success |-> TRUE, file_path |-> tag_in.file_path]
    /\ tag_pc' = "done"
    /\ UNCHANGED <<tag_in, audio, saved, embedded, tag_calls>>
    /\ UNCHANGED <<dlvars, qrvars, unitvars, apivars, morevars>>

TagNext ==
    \/ \E o \in {"ok", "raises"} : TagsLoad(o)
    \/ \E o \in {"ok", "failed"} : TagsFetchCover(o)
    \/ \E o \in {"ok", "raises"} : TagsSave(o)
    \/ TagsReturn

\* ========================================================= playlist loop
\* get_playlist_detail, lines 355-375: the ids are requested from
\* SONG_DETAIL_V3 in slices and the songs of each answer are appended to
\* info['tracks'] as they come.

\* range(0, len(track_ids), 100) / track_ids[i:i+100]
BatchSize == 100

\* Tracks beyond two full batches in the longest playlist.
MaxExtraTracks == 1

PlaylistLengths ==
    {0, 1, 2, BatchSize - 1, BatchSize, BatchSize + 1, 2 * BatchSize}
        \cup {2 * BatchSize + e : e \in 1..MaxExtraTracks}

\* playlist['trackIds'] of n tracks, ids rising or falling.
TrackIds(n, layout) ==
    [k \in 1..n |-> IF layout = "rising" THEN k ELSE n + 1 - k]

PlaylistInputs == {TrackIds(n, l) : n \in PlaylistLengths, l \in {"rising", "falling"}}

\* track_ids[i:i+100], i counted from 0.
BatchIds(ids, i) ==
    SubSeq(ids, i + 1, IF i + BatchSize < Len(ids) THEN i + BatchSize ELSE Len(ids))

\* song_result['songs']: the songs asked for, in the order the service
\* chooses to list them.
ServiceOrders == {"as_asked", "reversed", "rotated"}

Songs(batch_ids, order) ==
    LET n == Len(batch_ids)
    IN CASE order = "as_asked" -> batch_ids
         [] order = "reversed" -> [k \in 1..n |-> batch_ids[n + 1 - k]]
         [] order = "rotated"  -> [k \in 1..n |-> batch_ids[(k % n) + 1]]

\* for song in song_result.get('songs', []): info['tracks'].append(...)
AppendSongs(so_far, songs) == so_far \o songs

InitPlaylistIdle ==
    /\ pl_pc = "idle"
    /\ track_ids = <<>>
    /\ batch_requests = <<>>
    /\ info_tracks = <<>>

\* The playlist has arrived with code 200.
InitPlaylist ==
    /\ pl_pc = "loop"
    /\ track_ids \in PlaylistInputs
    /\ batch_requests = <<>>
    /\ info_tracks = <<>>

\* One turn of the loop: the next slice is requested and answered.
PlaylistBatch(order) ==
    /\ pl_pc = "loop"
    /\ Len(batch_requests) * BatchSize < Len(track_ids)
    /\ LET batch_ids == BatchIds(track_ids, Len(batch_requests) * BatchSize)
       IN /\ batch_requests' = Append(batch_requests, batch_ids)
          /\ info_tracks' = AppendSongs(info_tracks, Songs(batch_ids, order))
    /\ UNCHANGED <<pl_pc, track_ids>>
    /\ UNCHANGED <<corevars, signvars, loginvars>>

\* The range is exhausted: return info.
PlaylistReturn ==
    /\ pl_pc = "loop"
    /\ Len(batch_requests) * BatchSize >= Len(track_ids)
    /\ pl_pc' = "returned"
    /\ UNCHANGED <<track_ids, batch_requests, info_tracks>>
    /\ UNCHANGED <<corevars, signvars, loginvars>>

PlaylistNext ==
    \/ \E o \in ServiceOrders : PlaylistBatch(o)
    \/ PlaylistReturn

\* =========================================================== signed calls
\* CryptoUtils.encrypt_params, HTTPClient.post_request(_full) and the
\* methods that build a signed request.  Text is a sequence of tokens; md5
\* and AES are kept symbolic: the digest and the ciphertext are written as
\* the function applied to its whole input.

AES_KEY == "e82ckenh8dichen8"

SONG_URL_V1 == <<"eapi", "song", "enhance", "player", "url", "v1">>

QR_UNIKEY_API == <<"eapi", "login", "qrcode", "unikey">>

DefaultConfig ==
    << <<"os", "pc">>, <<"appver", "">>, <<"osver", "">>, <<"deviceId", "pyncm!">> >>

DefaultCookies ==
    [k \in {"os", "appver", "osver", "deviceId"} |->
        CASE k = "os" -> "pc" [] k = "deviceId" -> "pyncm!" [] OTHER -> ""]

\* d.update(e) on a copy of d
Updated(d, e) ==
    [k \in DOMAIN d \cup DOMAIN e |-> IF k \in DOMAIN e THEN e[k] ELSE d[k]]

\* str(randrange(20000000, 30000000)): the draws the model makes.
MaxRequestIds == 2

RequestIds == 20000000..(20000000 + MaxRequestIds - 1)

\* The quality levels of the facade.
Qualities == {"standard", "lossless", "sky", "jymaster"}

\* The cookies argument: nothing, the credential, the credential with the
\* caller's own "os".
CallerCookies ==
    {EmptyDict,
     [k \in {"MUSIC_U"} |-> "token"],
     [k \in {"MUSIC_U", "os"} |-> IF k = "os" THEN "android" ELSE "token"]}

\* A JSON string literal.
JsonString(text) == <<"\"">> \o text \o <<"\"">>

RECURSIVE JsonMembers(_)
JsonMembers(pairs) ==
    IF pairs = <<>> THEN <<>>
    ELSE <<Head(pairs)[1], ":">> \o Head(pairs)[2]
         \o (IF Len(pairs) > 1 THEN <<",">> ELSE <<>>) \o JsonMembers(Tail(pairs))

\* json.dumps of a dict, members in insertion order; each value is given
\* as its JSON text.
JsonDumps(pairs) == <<"{">> \o JsonMembers(pairs) \o <<"}">>

\* json.dumps(config): the values are strings.
JsonDumpsStrings(config) ==
    JsonDumps([k \in 1..Len(config) |-> <<config[k][1], JsonString(<<config[k][2]>>)>>])

\* urlparse(url).path.replace("/eapi/", "/api/")
UrlPath(url) ==
    LET seg(k) == IF url[k] = "eapi" /\ k < Len(url) THEN "api" ELSE url[k]
        RECURSIVE Path(_)
        Path(k) == IF k > Len(url) THEN <<>> ELSE <<"/", seg(k)>> \o Path(k + 1)
    IN Path(1)

\* hash_hex_digest(text)
HashHexDigest(text) == <<"md5(">> \o text \o <<")">>

\* algorithms.AES(...).block_size in bytes; a token stands for a byte.
BlockSize == 16

\* PKCS7: p bytes of value p, p in 1..BlockSize, up to the next block.
Pkcs7(data) ==
    LET p == BlockSize - (Len(data) % BlockSize)
    IN data \o [k \in 1..p |-> ToString(p)]

\* encrypt_params with a cipher whose state is carried over from the
\* previous call instead of a fresh one in ECB mode.
EncryptParamsChained(url, payload) ==
    LET url_path == UrlPath(url)
        dumped == JsonDumps(payload)
        digest == HashHexDigest(<<"nobody">> \o url_path \o <<"use">> \o dumped
                                \o <<"md5forencrypt">>)
        params == url_path \o <<"-36cd479b6b5-">> \o dumped \o <<"-36cd479b6b5-">>
                  \o digest
    IN <<"hex", "aes", AES_KEY>> \o request.params \o Pkcs7(params)

\* CryptoUtils.encrypt_params
EncryptParams(url, payload) ==
    LET url_path == UrlPath(url)
        dumped == JsonDumps(payload)
        digest == HashHexDigest(<<"nobody">> \o url_path \o <<"use">> \o dumped
                                \o <<"md5forencrypt">>)
        params == url_path \o <<"-36cd479b6b5-">> \o dumped \o <<"-36cd479b6b5-">>
                  \o digest
    IN <<"hex", "aes_ecb", AES_KEY>> \o Pkcs7(params)

\* config = DEFAULT_CONFIG.copy(); config["requestId"] = str(randrange(...))
RequestConfig(defaults, request_id) ==
    [shared |-> defaults,
     config |-> Append(defaults, <<"requestId", ToString(request_id)>>)]

\* The payload of get_song_url with immerseType on every quality.
SongUrlPayloadAlwaysImmerse(song_id, quality, config) ==
    << <<"ids", <<"[", ToString(song_id), "]">> >>,
       <<"level", JsonString(<<quality>>)>>,
       <<"encodeType", JsonString(<<"flac">>)>>,
       <<"header", JsonString(JsonDumpsStrings(config))>>,
       <<"immerseType", JsonString(<<"c51">>)>> >>

\* The payload of get_song_url, lines 177-185.
SongUrlPayload(song_id, quality, config) ==
    LET payload ==
            << <<"ids", <<"[", ToString(song_id), "]">> >>,
               <<"level", JsonString(<<quality>>)>>,
               <<"encodeType", JsonString(<<"flac">>)>>,
               <<"header", JsonString(JsonDumpsStrings(config))>> >>
    IN IF quality = "sky"
       THEN Append(payload, <<"immerseType", JsonString(<<"c51">>)>>)
       ELSE payload

\* The payload of generate_qr_key.
QrKeyPayload(config) ==
    << <<"type", <<"1">> >>, <<"header", JsonString(JsonDumpsStrings(config))>> >>

\* post_request with the copy left out: DEFAULT_COOKIES.update(cookies)
PostRequestCookiesInPlace(defaults, caller) ==
    [shared |-> Updated(defaults, caller), caller |-> caller,
     sent |-> Updated(defaults, caller)]

\* request_cookies = DEFAULT_COOKIES.copy(); request_cookies.update(cookies)
PostRequestCookies(defaults, caller) ==
    [shared |-> defaults, caller |-> caller, sent |-> Updated(defaults, caller)]

NoRequest ==
    [fn |-> "none", song_id |-> 0, quality |-> "", url |-> <<>>, payload |-> <<>>,
     params |-> <<>>, cookies |-> EmptyDict, sent |-> EmptyDict]

InitSign ==
    /\ DEFAULT_CONFIG = DefaultConfig
    /\ DEFAULT_COOKIES = DefaultCookies
    /\ cookies = EmptyDict
    /\ request = NoRequest
    /\ prev_request = NoRequest

\* One signed request: the payload is encrypted and posted with the
\* merged cookies.
SignedCall(fn, song_id, quality, url, rc, payload, c) ==
    LET pr == PostRequestCookies(DEFAULT_COOKIES, c)
    IN /\ DEFAULT_CONFIG' = rc.shared
       /\ DEFAULT_COOKIES' = pr.shared
       /\ cookies' = pr.caller
       /\ request' = [fn |-> fn, song_id |-> song_id, quality |-> quality,
                      url |-> url, payload |-> payload,
                      params |-> EncryptParams(url, payload),
                      cookies |-> c, sent |-> pr.sent]
       /\ prev_request' = request
       /\ UNCHANGED <<corevars, plvars, loginvars>>

\* get_song_url(song_id, quality, cookies)
SignedGetSongUrl(song_id, quality, request_id, c) ==
    LET rc == RequestConfig(DEFAULT_CONFIG, request_id)
    IN SignedCall("get_song_url", song_id, quality, SONG_URL_V1, rc,
                  SongUrlPayload(song_id, quality, rc.config), c)

\* generate_qr_key(): posted with no caller cookies
SignedGenerateQrKey(request_id) ==
    LET rc == RequestConfig(DEFAULT_CONFIG, request_id)
    IN SignedCall("generate_qr_key", 0, "", QR_UNIKEY_API, rc,
                  QrKeyPayload(rc.config), EmptyDict)

SignNext ==
    \/ \E id \in Tracks, q \in Qualities, n \in RequestIds, c \in CallerCookies :
          SignedGetSongUrl(id, q, n, c)
    \/ \E n \in RequestIds : SignedGenerateQrKey(n)

\* ============================================================ login client
\* QRLoginClient.interactive_login and .save_cookie over CookieManager.
\* A cookie string is the sequence of its "name=value" items; a name is a
\* sequence of pieces, white space and separators being pieces of their
\* own; a value is a string.

Name(s) == <<s>>

\* self.important_cookies
ImportantCookies ==
    {Name("MUSIC_U"), Name("MUSIC_A"), Name("__csrf"), Name("NMTID"),
     Name("WEVNSM"), Name("WNMCID")}

\* if not music_u or len(music_u) < 10
MinMusicULen == 10

\* if any(char in name for char in [' ', '\t', '\n', '\r', ';', ','])
IllegalNameChars == {" ", "\t", "\n", "\r", ";", ","}

\* The MUSIC_U values of two logins.
Tokens == {"token_of_login_1", "token_of_login_2"}

\* A cookie with every important name.
FullCookie(music_u) ==
    << <<Name("MUSIC_U"), music_u>>, <<Name("MUSIC_A"), "a">>,
       <<Name("__csrf"), "c">>, <<Name("NMTID"), "n">>,
       <<Name("WEVNSM"), "w">>, <<Name("WNMCID"), "m">> >>

\* The string qr_login builds on confirmation (music_api.py, line 597).
QrCookie(music_u) ==
    << <<Name("MUSIC_U"), music_u>>, <<Name("os"), "pc">>,
       <<Name("appver"), "8.9.70">> >>

\* The strings save_cookie is given: empty, a name with a blank in it, the
\* cookie of a QR login, complete cookies, a complete one with a short
\* MUSIC_U.
CookieStrings ==
    {<<>>, << <<<<"bad", " ", "name">>, "v">> >>, FullCookie("short")}
        \cup {QrCookie(t) : t \in Tokens} \cup {FullCookie(t) : t \in Tokens}

\* parse_cookie_string: the items with a name and a value, the last item
\* of a name winning.
ParseCookieString(items) ==
    LET kept == {k \in 1..Len(items) : items[k][1] # <<>> /\ items[k][2] # ""}
        names == {items[k][1] : k \in kept}
        last(n) == CHOOSE k \in kept :
                       /\ items[k][1] = n
                       /\ \A j \in kept : items[j][1] = n => j <= k
    IN [n \in names |-> items[last(n)][2]]

\* validate_cookie_format
ValidateCookieFormat(items) ==
    LET parsed == ParseCookieString(items)
    IN /\ items # <<>>
       /\ DOMAIN parsed # {}
       /\ \A n \in DOMAIN parsed :
             \A k \in 1..Len(n) : n[k] \notin IllegalNameChars

\* is_cookie_valid over the content of the file
IsCookieValid(content) ==
    LET parsed == ParseCookieString(content)
    IN /\ DOMAIN parsed # {}
       /\ ImportantCookies \subseteq DOMAIN parsed
       /\ Len(parsed[Name("MUSIC_U")]) >= MinMusicULen

\* Outcomes of writing a file: done, or refused by the file system before
\* anything is written.
IoOutcomes == {"ok", "permission_error"}

\* write_cookie: the content is checked first, then written.
WriteCookie(content, cookie, io) ==
    IF cookie = <<>> \/ ~ValidateCookieFormat(cookie) \/ io # "ok"
    THEN [raised |-> TRUE, file |-> content]
    ELSE [raised |-> FALSE, file |-> cookie]

\* save_cookie: back the file up (a failure is only logged), write the
\* new cookie, then validate what the file holds.
SaveCookie(content, backup, cookie, backup_io, write_io) ==
    LET w == WriteCookie(content, cookie, write_io)
    IN [ret |-> ~w.raised /\ IsCookieValid(w.file),
        file |-> w.file,
        backup |-> IF backup_io = "ok" THEN <<content>> ELSE backup]

\* Values as Python sees them: a str, None, a tuple or a dict.
PyStr(x) == [type |-> "str", items |-> <<x>>]

PyNone == [type |-> "none", items |-> <<>>]

PyTuple(t) == [type |-> "tuple", items |-> t]

\* value[key] for a string key: defined on a dict holding the key; a
\* TypeError on a str, None or a tuple, a KeyError on a dict without it.
Subscript(value, key) ==
    IF value.type = "dict" /\ key \in DOMAIN value.items
    THEN [raised |-> FALSE, value |-> value.items[key]]
    ELSE [raised |-> TRUE, value |-> FALSE]

\* value.get(key, default) on a dict; an AttributeError elsewhere.
Get(value, key, default) ==
    IF value.type # "dict" THEN [raised |-> TRUE, value |-> default]
    ELSE [raised |-> FALSE,
          value |-> IF key \in DOMAIN value.items THEN value.items[key] ELSE default]

\* What create_qr_login returns: the unikey, or None.
QrResults == {PyStr("unikey"), PyNone}

\* What check_qr_login returns: (code, cookie_dict).
StatusResults ==
    {PyTuple(<<801, EmptyDict>>), PyTuple(<<802, EmptyDict>>),
     PyTuple(<<800, EmptyDict>>)}
        \cup {PyTuple(<<803, [k \in {"MUSIC_U"} |-> t]>>) : t \in Tokens}

\* max_attempts = 60
MaxAttempts == 60

LoginReturn(ok, error, content, backup, attempts) ==
    [ok |-> ok, error |-> error, file |-> content, backup |-> backup,
     attempts |-> attempts]

\* The polling loop of interactive_login, from the given attempt on; every
\* poll is answered with status_result.
RECURSIVE PollLoop(_, _, _, _, _, _)
PollLoop(attempt, content, backup, status_result, backup_io, write_io) ==
    IF attempt >= MaxAttempts
    THEN LoginReturn(FALSE, "timeout", content, backup, attempt)
    ELSE LET success == Subscript(status_result, "success")
             status == Subscript(status_result, "status")
             cookie == Get(status_result, "cookie", <<>>)
             again == PollLoop(attempt + 1, content, backup, status_result,
                               backup_io, write_io)
         IN IF success.raised THEN again
            ELSE IF ~success.value THEN again
            ELSE IF status.raised THEN again
            ELSE IF status.value = "success"
                 THEN IF cookie.value = <<>>
                      THEN LoginReturn(FALSE, "no_cookie", content, backup, attempt)
                      ELSE LET s == SaveCookie(content, backup, cookie.value,
                                               backup_io, write_io)
                           IN LoginReturn(s.ret,
                                          IF s.ret THEN "none" ELSE "save_failed",
                                          s.file, s.backup, attempt)
            ELSE IF status.value = "expired"
                 THEN LoginReturn(FALSE, "expired", content, backup, attempt)
            ELSE IF status.value = "error"
                 THEN LoginReturn(FALSE, "login_error", content, backup, attempt)
            ELSE again

\* interactive_login: the whole method, the inputs being the answer typed
\* at the prompt, what create_qr_login returns and what the polls return.
InteractiveLogin(content, backup, choice, qr_result, status_result, backup_io, write_io) ==
    IF IsCookieValid(content) /\ choice \notin {"y", "yes"}
    THEN LoginReturn(TRUE, "none", content, backup, 0)
    ELSE LET success == Subscript(qr_result, "success")
         IN IF success.raised
            THEN LoginReturn(FALSE, "unknown_error", content, backup, 0)
            ELSE IF ~success.value
                 THEN LoginReturn(FALSE, "qr_failed", content, backup, 0)
                 ELSE PollLoop(0, content, backup, status_result, backup_io, write_io)

NoLogin ==
    [fn |-> "none", existing_valid |-> FALSE, choice |-> "", qr_result |-> PyNone,
     status_result |-> PyNone, cookie |-> <<>>, ok |-> FALSE, error |-> "none"]

\* CookieManager.__init__ has touched the file: it exists and is empty.
InitLogin ==
    /\ cookie_file = <<>>
    /\ cookie_backup = <<>>
    /\ login = NoLogin

\* client.save_cookie(cookie)
LoginSaveCookie(cookie, backup_io, write_io) ==
    LET s == SaveCookie(cookie_file, cookie_backup, cookie, backup_io, write_io)
    IN /\ cookie_file' = s.file
       /\ cookie_backup' = s.backup
       /\ login' = [NoLogin EXCEPT !.fn = "save_cookie", !.cookie = cookie,
                                   !.existing_valid = IsCookieValid(cookie_file),
                                   !.ok = s.ret,
                                   !.error = IF s.ret THEN "none" ELSE "save_failed"]
       /\ UNCHANGED <<corevars, plvars, signvars>>

\* client.interactive_login()
LoginInteractive(choice, qr_result, status_result, backup_io, write_io) ==
    LET r == InteractiveLogin(cookie_file, cookie_backup, choice, qr_result,
                              status_result, backup_io, write_io)
    IN /\ cookie_file' = r.file
       /\ cookie_backup' = r.backup
       /\ login' = [NoLogin EXCEPT !.fn = "interactive_login", !.choice = choice,
                                   !.existing_valid = IsCookieValid(cookie_file),
                                   !.qr_result = qr_result,
                                   !.status_result = status_result,
                                   !.ok = r.ok, !.error = r.error]
       /\ UNCHANGED <<corevars, plvars, signvars>>

LoginNext ==
    \/ \E c \in CookieStrings, b \in IoOutcomes, w \in IoOutcomes :
          LoginSaveCookie(c, b, w)
    \/ \E ch \in {"", "y"}, q \in QrResults, st \in StatusResults,
          b \in IoOutcomes, w \in IoOutcomes :
          LoginInteractive(ch, q, st, b, w)

InitMore == InitPlaylistIdle /\ InitSign /\ InitLogin

\* MusicAPIService.__init__ builds the downloader with the default gate.
InitLib == InitUnits /\ InitAPI /\ InitTags /\ InitMore

Init == InitDownloader(DefaultMaxConcurrent) /\ InitQR /\ InitLib

Next ==
    \/ \E t \in {x \in Threads : pc[x] = "idle"}, j \in Jobs,
          u \in UrlOutcomes, d \in DetailOutcomes, l \in LyricOutcomes :
            DownloadGetInfo(t, j.id, j.quality, u, d, l)
    \/ \E t \in Threads : DownloadCheckExists(t)
    \/ \E t \in Threads, r \in StreamOutcomes : DownloadOpenStream(t, r)
    \/ \E t \in Threads : DownloadWriteChunk(t)
    \/ \E t \in Threads : DownloadStreamFails(t)
    \/ \E t \in Threads, g \in 0..MaxTagBytes : DownloadFinish(t, g)

Spec == Init /\ [][Next]_vars

\* The gate set to one job at a time: MusicDownloader(max_concurrent=1).
InitGate == InitDownloader(1) /\ InitQR /\ InitLib

SpecGate == InitGate /\ [][Next]_vars

SpecQR == Init /\ [][QrNext]_vars

\* qr_login runs on; the service and other callers owe nothing.
FairSpecQR == Init /\ [][QrNext]_vars /\ WF_vars(QrLoginStep)

\* _sanitize_filename called on its own.
SanitizeInit ==
    InitDownloader(DefaultMaxConcurrent) /\ InitQR /\ InitSanitize /\ InitAPI /\ InitTags /\ InitMore

SpecSanitize == SanitizeInit /\ [][Sanitize]_vars

\* _clean_lrc_lyrics called on its own.
CleanInit ==
    InitDownloader(DefaultMaxConcurrent) /\ InitQR /\ InitClean /\ InitAPI /\ InitTags /\ InitMore

SpecClean == CleanInit /\ [][Clean]_vars

\* One call into the API layer.
SpecAPI == Init /\ [][ApiNext]_vars

\* _write_music_tags at the tail of a download.
TagInit ==
    InitDownloader(DefaultMaxConcurrent) /\ InitQR /\ InitUnits /\ InitAPI /\ InitTagWriter /\ InitMore

SpecTags == TagInit /\ [][TagNext]_vars

\* get_playlist_detail from the arrival of the playlist on.
PlaylistInit ==
    InitDownloader(DefaultMaxConcurrent) /\ InitQR /\ InitUnits /\ InitAPI /\ InitTags
        /\ InitPlaylist /\ InitSign /\ InitLogin

SpecPlaylist == PlaylistInit /\ [][PlaylistNext]_vars

\* The login client's calls, any number of them.
SpecLogin == Init /\ [][LoginNext]_vars

\* The signed calls, any number of them.
SpecSign == Init /\ [][SignNext]_vars

\* ================================================================= claims

Done(t) == pc[t] = "done"

\* The invocation returned success from the existence check.
ShortCircuited(t) == Done(t) /\ result[t].success /\ found[t].st # "absent"

\* The invocation streamed the file itself and returned success.
Downloaded(t) == Done(t) /\ result[t].success /\ found[t].st = "absent"

SameJob(t, u) ==
    /\ music_info[t].id = music_info[u].id
    /\ music_info[t].quality = music_info[u].quality

\* C1: a download that finds its destination already complete returns
\* success without having issued any network call (no stream-URL, detail,
\* lyric or stream request).
SecondDownloadNoNetwork ==
    \A t \in Threads :
        (ShortCircuited(t) /\ found[t].st = "complete") => calls[t] = NoCalls

\* C2: the size a download reports is the destination's on-disk size when
\* the call returns, and a second download of the same job that
\* short-circuits on the file the first one completed reports the size the
\* first one reported.
DownloadSizeIdempotent ==
    /\ \A t \in Threads : (Done(t) /\ result[t].success) =>
            result[t].file_size = result[t].disk
    /\ \A t, u \in Threads :
        (/\ Downloaded(t) /\ ShortCircuited(u) /\ SameJob(t, u)
         /\ found[u].st = "complete" /\ found[u].by = t)
        => result[u].file_size = result[t].file_size

\* C3: a download that finds a destination left partial by a failed stream
\* never returns success without fetching the stream again.
PartialNotValid ==
    \A t \in Threads :
        (Done(t) /\ result[t].success /\ found[t].st = "partial")
        => calls[t].stream = "ok"

\* C4: once check_qr_login has reported confirmed or expired for the key,
\* a further poll sends nothing and reports the same result.
QrTerminalAbsorbing ==
    [][ (~qr_reported.raised /\ qr_reported.code \in {QrConfirmed, QrExpired})
        => (qr_reported' = qr_reported /\ qr_requests' = qr_requests) ]_vars

QrListedTransitions ==
    {<<QrPending, QrScanned>>, <<QrScanned, QrConfirmed>>, <<QrScanned, QrExpired>>,
     <<QrPending, QrExpired>>}
    \cup {<<c, QrNoCode>> : c \in {0, QrPending, QrScanned}}
    \cup {<<0, c>> : c \in {QrPending, QrScanned, QrConfirmed, QrExpired}}

QrTerminal == {QrConfirmed, QrExpired, QrNoCode}

\* C5 as stated: the states qr_login observes over its successive polls
\* change only along pending->scanned, scanned->confirmed,
\* scanned->expired, pending->expired and any->failed; scanned is never
\* followed by pending; the loop stops at the first confirmed, expired or
\* failed observation.
QrOnlyListedTransitions ==
    [][ /\ (qr_code' # qr_code => <<qr_code, qr_code'>> \in QrListedTransitions)
        /\ (qr_code = QrScanned => qr_code' # QrPending)
        /\ (qr_code' \in QrTerminal => qr_pc' = "returned")
        /\ (qr_code \in QrTerminal => qr_code' = qr_code) ]_vars

\* C5 amended: as above, with pending->confirmed added - the scan and the
\* confirmation can both happen between two polls.
QrObservedTransitions ==
    [][ /\ (qr_code' # qr_code =>
               <<qr_code, qr_code'>> \in QrListedTransitions \cup {<<QrPending, QrConfirmed>>})
        /\ (qr_code = QrScanned => qr_code' # QrPending)
        /\ (qr_code' \in QrTerminal => qr_pc' = "returned")
        /\ (qr_code \in QrTerminal => qr_code' = qr_code) ]_vars

\* qr_login polled until it observed confirmed, stopped there and returned
\* the cookie string.
QrConfirmedReturnedWitness ==
    /\ qr_pc = "returned"
    /\ qr_code = QrConfirmed
    /\ ~qr_return.none

\* C6: a poll result reporting 803 carries a non-empty MUSIC_U taken from
\* the response's Set-Cookie header, and qr_login, having seen 803,
\* returns a cookie string with that token.
QrConfirmedCarriesToken ==
    /\ (~qr_reported.raised /\ qr_reported.code = QrConfirmed) =>
         /\ "MUSIC_U" \in DOMAIN qr_reported.cookies
         /\ qr_reported.cookies.MUSIC_U # ""
         /\ \E i \in DOMAIN qr_reported.set_cookie :
                qr_reported.set_cookie[i] = <<"MUSIC_U", qr_reported.cookies.MUSIC_U>>
    /\ (qr_pc = "returned" /\ qr_code = QrConfirmed) =>
         (~qr_return.none /\ qr_return.music_u # "")

\* C7: qr_login, once polling, eventually returns - also when every poll
\* keeps answering pending or scanned.
QrLoginTerminates == (qr_pc = "poll") ~> (qr_pc = "returned")

\* Invocations with an open stream transfer.
InFlight == {t \in Threads : pc[t] = "write"}

\* C8: at most max_concurrent downloads are in flight at any instant.
BoundedInFlight == Cardinality(InFlight) <= max_concurrent

OwnCallsOk(t) ==
    /\ calls[t].url = "ok"
    /\ calls[t].detail = "ok"
    /\ calls[t].lyric \in {"ok", "empty"}
    /\ calls[t].stream \in {"ok", "not_called"}

ResolveFailsIffMissing ==
    \A t \in Threads : pc[t] # "idle" =>
        /\ (music_info[t] = NoInfo) <=> (calls[t].url # "ok" \/ calls[t].detail # "ok")
        /\ (music_info[t] # NoInfo /\ calls[t].lyric # "ok") => music_info[t].lyric = ""

\* C11: a download whose stream descriptor comes back with a null URL
\* fails with get_music_info's "no download link" error, and the step
\* leaves the download directory as it was.
NullUrlWritesNothing ==
    [][ \A t \in Threads :
          (calls[t].url = "not_called" /\ calls'[t].url = "null_url")
          => /\ files' = files
             /\ pc'[t] = "done"
             /\ result'[t] = Failure("no_download_url") ]_vars

\* A null-URL download has returned while a sibling's file is on disk.
NullUrlWitness ==
    \E t \in Threads :
        /\ Done(t) /\ calls[t].url = "null_url"
        /\ \E p \in Paths : files[p].st = "complete"

TagFailureNonFatal ==
    /\ tag_pc = "done" => (tag_result.success /\ tag_result.file_path = tag_in.file_path)
    /\ (tag_pc \in {"returned", "done"} /\ tag_calls.cover = "failed"
                                          /\ tag_calls.save # "raises")
       => saved = BasicFrames(tag_in) \cup LyricFrames(tag_in)

\* The cover fetch failed, the save went through, the download returned.
CoverSkippedWitness ==
    /\ tag_pc = "done"
    /\ tag_calls.cover = "failed"
    /\ tag_calls.save = "ok"
    /\ "lyrics" \in saved

Chars(s) == {s[i] : i \in 1..Len(s)}

\* C14: the sanitized name holds none of < > : " / \ | ? * and is not
\* empty.
SanitizedLegalNonEmpty ==
    unit_pc = "sanitized" =>
        /\ Chars(safe_filename) \cap IllegalChars = {}
        /\ safe_filename # <<>>

\* A name made only of illegal characters, dots or spaces was sanitized.
SanitizedWitness ==
    /\ unit_pc = "sanitized"
    /\ filename # <<>>
    /\ Chars(filename) \subseteq IllegalChars \cup StripChars
    /\ Chars(filename) \cap IllegalChars # {}

\* C15: the sanitized name is at most 200 characters long and does not
\* end with a dot or a space.
SanitizedCappedAndTrimmed ==
    unit_pc = "sanitized" =>
        /\ Len(safe_filename) <= FilenameCap
        /\ safe_filename[Len(safe_filename)] \notin {".", " "}

Lines(text) == Split(text, <<>>)

\* A line with nothing but white space on it.
IsBlankLine(line) == Chars(line) \subseteq {" ", "\t", "\r"}

Letters == {"a", "r", "t", "i", "x"}

\* A bracketed id tag such as [ar:x]: [ key : value ], the key a word.
IsMetadataLine(line) ==
    /\ Len(line) >= 4
    /\ line[1] = "[" /\ line[Len(line)] = "]"
    /\ line[2] \in Letters
    /\ \E i \in 3..Len(line) : line[i] = ":"

Digits == {"0", "1", "2"}

\* A line that begins with a timestamp tag [mm:ss.xx].
IsTimestampLine(line) ==
    /\ Len(line) >= 10
    /\ line[1] = "[" /\ line[2] \in Digits /\ line[3] \in Digits /\ line[4] = ":"
    /\ line[10] = "]"

OnlyMetadataAndBlank(text) ==
    \A i \in 1..Len(Lines(text)) :
        IsBlankLine(Lines(text)[i]) \/ IsMetadataLine(Lines(text)[i])

\* C16: a lyric text made only of id-tag lines and blank lines cleans to
\* the empty string.
MetadataOnlyCleansToEmpty ==
    (unit_pc = "cleaned" /\ OnlyMetadataAndBlank(lrc_text)) => cleaned = <<>>

\* Such a text, with an id tag and a whitespace line in it, was cleaned.
MetadataOnlyWitness ==
    /\ unit_pc = "cleaned"
    /\ OnlyMetadataAndBlank(lrc_text)
    /\ \E i \in 1..Len(Lines(lrc_text)) : IsMetadataLine(Lines(lrc_text)[i])
    /\ \E i \in 1..Len(Lines(lrc_text)) : Lines(lrc_text)[i] = <<" ">>

\* The lines the claim keeps: all but the blank and the id-tag lines.
ClaimKeeps(line) == ~IsBlankLine(line) /\ ~IsMetadataLine(line)

\* C17: the cleaned text is the argument's lines without the blank and the
\* id-tag lines, in their order; every timestamped line is among them.
CleanKeepsTimestamps ==
    unit_pc = "cleaned" =>
        cleaned = Join(SelectSeq(Lines(lrc_text), ClaimKeeps))

\* The envelopes a call has consumed: the first answer and the batches'.
Envelopes == {api_call.resp} \cup {api_call.batches[i] : i \in 1..Len(api_call.batches)}

\* C18: a call of which any envelope carries a code other than 200 raises.
NonOkEnvelopeRaises ==
    (api_call.fn # "none" /\ \E e \in Envelopes : e.kind = "json" /\ e.code # 200)
    => api_result.raised

Methods ==
    {"get_song_url", "get_song_detail", "get_lyric", "search_music",
     "get_album_detail", "generate_qr_key"}

MethodResult(fn, r) ==
    IF fn = "get_song_url" THEN GetSongUrl(r)
    ELSE IF fn = "get_song_detail" THEN GetSongDetail(r)
    ELSE IF fn = "get_lyric" THEN GetLyric(r)
    ELSE IF fn = "search_music" THEN SearchMusic(r)
    ELSE IF fn = "get_album_detail" THEN GetAlbumDetail(r)
    ELSE GenerateQrKey(r)

\* The kinds of error a rejection by the service is raised as.
RejectionKinds ==
    {MethodResult(fn, r).kind : fn \in Methods,
                                r \in {a \in ApiAnswers : a.kind = "json" /\ a.code # 200}}

\* C19: the error raised for a transport failure is of a kind no protocol
\* rejection is raised as.
TransportErrorDistinct ==
    (api_call.fn # "none" /\ api_call.resp.kind = "transport")
    => (api_result.raised /\ api_result.kind \notin RejectionKinds)

\* C20: a 200 envelope whose stream descriptor has a null URL makes
\* get_song_url return normally, and the /song facade on top of it does not
\* answer success for it.
NullUrlReportedUnavailable ==
    (/\ api_call.fn \in {"get_song_url", "get_song_info"}
     /\ api_call.resp = ApiResponse("json", 200, "null_url"))
    => /\ ~api_result.raised
       /\ api_call.fn = "get_song_info" => ~http_response.success

\* C24: two jobs that differ in track or in quality never share a
\* destination path, and a download that short-circuits on an existing
\* file found the file of its own job.
DistinctDestinations ==
    /\ \A t, u \in Threads :
          (music_info[t] # NoInfo /\ music_info[u] # NoInfo /\ ~SameJob(t, u))
          => FilePath(music_info[t]) # FilePath(music_info[u])
    /\ \A u \in Threads :
          ShortCircuited(u) => SameJob(found[u].by, u)

\* C25: a download whose destination exists when it is checked returns
\* success with the file's size in that very step, has fetched no stream,
\* and the step leaves every file as it was.
ShortCircuitLeavesFile ==
    [][ \A t \in Threads :
          (/\ pc[t] = "check" /\ pc'[t] # "check"
           /\ files[FilePath(music_info[t])].st # "absent")
          => /\ pc'[t] = "done"
             /\ files' = files
             /\ calls'[t].stream = "not_called"
             /\ result'[t].success
             /\ result'[t].file_size = StatSize(files[FilePath(music_info[t])]) ]_vars

\* A download short-circuited on a complete, tagged file.
ShortCircuitWitness ==
    \E t \in Threads :
        /\ ShortCircuited(t) /\ found[t].st = "complete"
        /\ files[FilePath(music_info[t])].tag > 0

\* The invocation opened the destination for writing.
Opened(t) == pc[t] = "write" \/ Downloaded(t)

\* C28: of two requests for the same job at most one opens the
\* destination, and none returns success on a file still being written.
ExclusiveWriter ==
    /\ \A t, u \in Threads :
          (t # u /\ SameJob(t, u)) => ~(Opened(t) /\ Opened(u))
    /\ \A u \in Threads : ShortCircuited(u) => found[u].st # "writing"

\* The text the claim describes: the cleaned original, then the cleaned
\* translation under the heading when there is one to put there.
ClaimedLyrics(lyric, tlyric) ==
    LET original == CleanLrcLyrics(lyric)
        translated == CleanLrcLyrics(tlyric)
    IN IF translated = <<>> THEN original
       ELSE IF original = <<>> THEN translated
            ELSE original \o TranslationHeading \o translated

\* C26: the lyrics saved into the file are the cleaned original followed,
\* only when the cleaned translation is not empty, by the heading and that
\* translation; the cleaned translation alone when the original is empty.
EmbeddedLyricsShape ==
    "lyrics" \in saved => embedded = ClaimedLyrics(tag_in.lyric, tag_in.tlyric)

RECURSIVE Flatten(_)
Flatten(seqs) == IF seqs = <<>> THEN <<>> ELSE Head(seqs) \o Flatten(Tail(seqs))

\* C21: the batches requested are consecutive slices of at most BatchSize
\* ids that cover trackIds once, and the tracks returned are in the order
\* of trackIds, whatever order the service lists each batch in.
PlaylistBatchedInOrder ==
    pl_pc = "returned"
    => /\ \A b \in 1..Len(batch_requests) : Len(batch_requests[b]) \in 1..BatchSize
       /\ Flatten(batch_requests) = track_ids
       /\ info_tracks = track_ids

Called(r) == r # NoRequest

Keys(payload) == {payload[k][1] : k \in 1..Len(payload)}

\* The JSON text of a key of a payload.
ValueOf(payload, key) ==
    LET k == CHOOSE i \in 1..Len(payload) : payload[i][1] = key IN payload[k][2]

\* C23: the payload of a stream-URL request holds immerseType, with the
\* value "c51", exactly when the quality is sky; its other keys are ids,
\* level, encodeType and header.
ImmerseTypeIffSky ==
    request.fn = "get_song_url"
    => /\ Keys(request.payload) \ {"immerseType"} = {"ids", "level", "encodeType", "header"}
       /\ "immerseType" \in Keys(request.payload) <=> request.quality = "sky"
       /\ request.quality = "sky"
          => ValueOf(request.payload, "immerseType") = <<"\"", "c51", "\"">>
       /\ ValueOf(request.payload, "level") = <<"\"", request.quality, "\"">>

\* Both kinds of stream-URL request have been sent.
SkyAndPlainWitness ==
    /\ request.fn = "get_song_url" /\ request.quality = "sky"
    /\ prev_request.fn = "get_song_url" /\ prev_request.quality = "standard"

\* C27: the process-wide defaults are never changed, a call leaves the
\* caller's mapping as it was passed, and the cookies sent are the device
\* cookies overlaid with the caller's, the caller's value winning.
SharedStateUntouched ==
    /\ DEFAULT_CONFIG = DefaultConfig
    /\ DEFAULT_COOKIES = DefaultCookies
    /\ Called(request)
       => /\ cookies = request.cookies
          /\ DOMAIN request.sent = DOMAIN DefaultCookies \cup DOMAIN request.cookies
          /\ \A k \in DOMAIN request.sent :
                request.sent[k] = IF k \in DOMAIN request.cookies
                                  THEN request.cookies[k] ELSE DefaultCookies[k]

\* A call was made with a credential that overrides a device cookie, after
\* another call.
CallerOverridesWitness ==
    /\ Called(prev_request) /\ Called(request)
    /\ "os" \in DOMAIN request.cookies /\ request.sent["os"] = "android"
    /\ request.sent["deviceId"] = "pyncm!"

\* C29: with no valid login stored, a key minted and the polls reporting
\* confirmation with a token, interactive_login returns (True, None).
InteractiveLoginSucceeds ==
    (/\ login.fn = "interactive_login"
     /\ ~login.existing_valid
     /\ login.qr_result.type = "str"
     /\ login.status_result.type = "tuple"
     /\ login.status_result.items[1] = 803
     /\ "MUSIC_U" \in DOMAIN login.status_result.items[2])
    => login.ok /\ login.error = "none"

\* C30: a save_cookie that returns False leaves the cookie file with the
\* content it had before the call.
FailedSaveKeepsFile ==
    [][ (login'.fn = "save_cookie" /\ ~login'.ok) => cookie_file' = cookie_file ]_vars

====
